---- MODULE Spec2Model ----
(***************************************************************************)
(* TextureCacheBuilder (t3dlitematica/texturepackexport/convert.py).       *)
(*                                                                         *)
(* A build extracts an ordered list of resource packs, resolves the        *)
(* blockstate of every requested block, the models those blockstates       *)
(* reference (parents first) and the textures the models name, writes      *)
(* textures.json and removes the extraction directories.                   *)
(*                                                                         *)
(* Strings that the code splits or rewrites (model and texture             *)
(* references) are sequences of tokens, the separators ":" "/" "#" being   *)
(* tokens of their own, so that str.split and str.replace are computed.    *)
(* A JSON object is a record whose DOMAIN is the set of keys present.      *)
(***************************************************************************)
EXTENDS Integers, Sequences, FiniteSets, TLC

(* ------------------------------ bounds --------------------------------- *)

\* longest pack list handed to a build
MaxPacks == 2
\* builds run one after the other on the same destination directory
MaxBuilds == 2
\* frames of _resolve_model the interpreter allows before RecursionError
MaxDepth == 3

(* ------------------------------ strings -------------------------------- *)

Max(S) == CHOOSE x \in S : \A y \in S : y <= x

\* s.split(sep)[-1]
SplitLast(s, sep) ==
    LET at == {i \in 1..Len(s) : s[i] = sep}
    IN  IF at = {} THEN s ELSE SubSeq(s, Max(at) + 1, Len(s))

\* s.replace("minecraft:", "")
RECURSIVE StripMinecraft(_)
StripMinecraft(s) ==
    IF s = <<>> THEN <<>>
    ELSE IF Len(s) >= 2 /\ s[1] = "minecraft" /\ s[2] = ":"
         THEN StripMinecraft(SubSeq(s, 3, Len(s)))
         ELSE <<s[1]>> \o StripMinecraft(Tail(s))

\* tex_ref.startswith("#")
StartsWithHash(s) == Len(s) >= 1 /\ s[1] = "#"

\* model_path and short_name of _resolve_model
ModelPath(model_ref) == SplitLast(model_ref, ":")
ShortName(model_ref) == SplitLast(ModelPath(model_ref), "/")

Range(f) == {f[x] : x \in DOMAIN f}

(* --------------------------- pack contents ----------------------------- *)

Ns(ns, s) == <<ns, ":">> \o s
Dir(d, name) == <<d, "/", name>>

BlockStone == Dir("block", "stone")
BlockCube == Dir("block", "cube")
BlockGrass == Dir("block", "grass_block")
BlockSculk == Dir("block", "sculk_sensor")
CustomStone == Dir("custom", "stone")
LoopA == Dir("block", "loop_a")
LoopB == Dir("block", "loop_b")

\* a file that json.load rejects
Malformed == [malformed |-> TRUE]

\* directory layouts an archive can extract to (one top-level child at most)
LayoutRoot == [assets |-> TRUE, minecraft |-> TRUE, childAssets |-> FALSE, childMinecraft |-> FALSE]
LayoutWrapper == [assets |-> FALSE, minecraft |-> FALSE, childAssets |-> TRUE, childMinecraft |-> TRUE]
LayoutAssetsOnly == [assets |-> TRUE, minecraft |-> FALSE, childAssets |-> FALSE, childMinecraft |-> FALSE]
LayoutNoAssets == [assets |-> FALSE, minecraft |-> FALSE, childAssets |-> FALSE, childMinecraft |-> FALSE]

Empty == [x \in {} |-> {}]

\* the base pack: every block but tnt, models under block/, archive root layout
Vanilla ==
    [name |-> "vanilla", suffix |-> ".zip", corrupt |-> FALSE, layout |-> LayoutRoot,
     blockstates |->
        ("stone" :> [variants |-> ("default" :> [dict |-> [model |-> Ns("minecraft", BlockStone)]])])
     @@ ("grass_block" :> [variants |-> ("snowy" :> [list |->
                              << [model |-> Ns("minecraft", BlockGrass)],
                                 [model |-> Ns("minecraft", BlockStone)] >>])])
     @@ ("sculk_sensor" :> [multipart |-> << [apply |-> [dict |-> [model |-> Ns("minecraft", BlockSculk)]]] >>]),
     models |->
        (BlockCube :> [textures |-> << [var |-> "particle", ref |-> <<"#", "all">>] >>])
     @@ (BlockStone :> [parent |-> Ns("minecraft", BlockCube),
                        textures |-> << [var |-> "all", ref |-> Ns("minecraft", BlockStone)] >>])
     @@ (BlockGrass :> [parent |-> BlockCube,
                        textures |-> << [var |-> "top", ref |-> Dir("block", "grass_top")],
                                        [var |-> "side", ref |-> Ns("minecraft", BlockStone)] >>])
     @@ (BlockSculk :> [parent |-> Dir("builtin", "generated"),
                        elements |-> << [faces |-> ("north" :> [uv |-> <<1, 1, 2, 2>>])
                                                @@ ("up" :> [uv |-> <<3, 3, 4, 4>>])] >>]),
     textures |-> {BlockStone}]

\* an override pack behind a wrapper directory: models whose short names
\* collide with each other and with the base pack's
Override ==
    [name |-> "override", suffix |-> ".zip", corrupt |-> FALSE, layout |-> LayoutWrapper,
     blockstates |->
        ("stone" :> [variants |-> ("default" :> [dict |-> [model |-> CustomStone]])])
     @@ ("grass_block" :> [multipart |-> << [apply |-> [list |->
                              << [model |-> BlockStone], [model |-> CustomStone] >>]] >>])
     @@ ("sculk_sensor" :> [variants |-> ("default" :> [list |->
                              << [model |-> Ns("minecraft", <<"sculk_sensor">>)],
                                 [model |-> Dir("block", "absent")] >>])])
     @@ ("tnt" :> [variants |-> ("default" :> [dict |-> [model |-> Ns("minecraft", BlockStone)]])]),
     models |->
        (CustomStone :> [parent |-> BlockStone,
                         textures |-> << [var |-> "all", ref |-> Ns("mod", Dir("block", "ore"))] >>])
     @@ (BlockStone :> [textures |-> << [var |-> "all", ref |-> BlockStone],
                                        [var |-> "particle", ref |-> BlockStone] >>,
                        elements |-> << [faces |-> ("north" :> [uv |-> <<5, 5, 6, 6>>])] >>])
     @@ (<<"sculk_sensor">> :> [elements |-> << [faces |-> ("east" :> [uv |-> <<7, 7, 8, 8>>])
                                                       @@ ("down" :> [uv |-> <<9, 9, 10, 10>>])],
                                                [cullface |-> "none"] >>]),
     textures |-> {BlockStone, Dir("block", "ore")}]

\* a pack with damaged content: an unparsable blockstate, an unparsable
\* model and a cycle of parents
Broken ==
    [name |-> "broken", suffix |-> ".zip", corrupt |-> FALSE, layout |-> LayoutRoot,
     blockstates |->
        ("stone" :> [variants |-> ("default" :> [dict |-> [model |-> BlockStone]])])
     @@ ("sculk_sensor" :> Malformed)
     @@ ("tnt" :> [variants |-> ("default" :> [dict |-> [model |-> LoopA]])]),
     models |->
        (BlockStone :> [parent |-> BlockCube])
     @@ (BlockCube :> Malformed)
     @@ (LoopA :> [parent |-> LoopB])
     @@ (LoopB :> [parent |-> LoopA]),
     textures |-> {}]

\* an archive with an assets directory that holds no minecraft directory
NoMinecraft ==
    [name |-> "nominecraft", suffix |-> ".zip", corrupt |-> FALSE, layout |-> LayoutAssetsOnly,
     blockstates |-> Empty, models |-> Empty, textures |-> {}]

\* an archive without any assets directory
NoAssets ==
    [name |-> "noassets", suffix |-> ".zip", corrupt |-> FALSE, layout |-> LayoutNoAssets,
     blockstates |-> Empty, models |-> Empty, textures |-> {}]

\* a .zip file that zipfile.ZipFile cannot read
Corrupt ==
    [name |-> "corrupt", suffix |-> ".zip", corrupt |-> TRUE, layout |-> LayoutNoAssets,
     blockstates |-> Empty, models |-> Empty, textures |-> {}]

\* a pack path that is not a .zip file
Folder ==
    [name |-> "folder", suffix |-> "", corrupt |-> FALSE, layout |-> LayoutRoot,
     blockstates |-> Vanilla.blockstates, models |-> Vanilla.models, textures |-> Vanilla.textures]

PackCatalogue == {Vanilla, Override, Broken, NoMinecraft, NoAssets, Corrupt, Folder}

BlockUniverse == {"grass_block", "sculk_sensor", "stone", "tnt"}

PackNames == {p.name : p \in PackCatalogue}
PackOf(name) == CHOOSE p \in PackCatalogue : p.name = name

\* pack lists a caller can pass: paths of archives, index 1 first
PackLists == UNION {[1..n -> PackNames] : n \in 1..MaxPacks}

\* sorted(): the lexicographic order of the block names
BlockOrder == <<"grass_block", "sculk_sensor", "stone", "tnt">>
Sorted(S) == SelectSeq(BlockOrder, LAMBDA b : b \in S)

(* ------------------------------- state --------------------------------- *)

VARIABLES
    resource_packs,    \* self.resource_packs: names of the archives, in priority order
    block_names,       \* self.block_names
    result,            \* self.result: models (with their insertion order) and block entries
    copied_textures,   \* self.copied_textures
    extracted_packs,   \* self._extracted_packs: (mc_path, tmpdir) pairs
    cache,             \* the destination directory: textures.json and textures/
    tmp,               \* directories made by tempfile.mkdtemp that exist on disk
    pc,                \* position of the running build
    error,             \* the exception build() propagates, "none" if none
    pack_i,            \* index of the pack _extract_packs looks at next
    blocks,            \* block names _resolve_blocks has still to visit, sorted
    cur,               \* block name and blockstate _resolve_block is working on
    model_refs,        \* references of the current blockstate not yet iterated
    stack,             \* active calls of _resolve_model, innermost first
    copies,            \* number of shutil.copy2 calls of this build, per texture reference
    build_no,          \* number of the running build
    prev               \* what the previous build left behind

vars == <<resource_packs, block_names, result, copied_textures, extracted_packs, cache,
          tmp, pc, error, pack_i, blocks, cur, model_refs, stack, copies, build_no, prev>>

inputs == <<resource_packs, block_names>>
locals == <<pack_i, blocks, cur, model_refs, stack>>

NoFile == [exists |-> FALSE]
NoBlock == [name |-> "none"]
NoBuild == [build |-> 0, error |-> "none", json |-> NoFile, files |-> {}]

\* a destination that an earlier run of the program has filled
StaleJson == [exists |-> TRUE, build |-> 0, content |-> [order |-> <<>>, models |-> Empty, blocks |-> Empty]]
StaleTextures == Dir("block", "old") :> [pack |-> "vanilla", build |-> 0]
StaleBuild == [build |-> 0, error |-> "none", json |-> StaleJson, files |-> DOMAIN StaleTextures]

\* self.result = {"models": {}}
EmptyResult == [order |-> <<>>, models |-> Empty, blocks |-> Empty]

(* --------------------------- _extract_packs ---------------------------- *)

\* the suffix is not looked at
IsZip_Always(pack) == TRUE

\* pack_path.suffix == ".zip"
IsZip(pack) == pack.suffix = ".zip"

\* _find_minecraft_path: the directory returned, or not found
FindMinecraftPath(layout) ==
    IF layout.assets THEN [found |-> TRUE, at |-> "root"]
    ELSE IF layout.childAssets THEN [found |-> TRUE, at |-> "child"]
    ELSE [found |-> FALSE, at |-> "none"]

\* whether the directory an extracted pack's mc_path names exists on disk
McExists(e) ==
    LET layout == PackOf(e.pack).layout
    IN  \/ e.at = "root" /\ layout.assets /\ layout.minecraft
        \/ e.at = "child" /\ layout.childAssets /\ layout.childMinecraft

\* (mc_path / kind / key).exists()
FileExists(e, kind, key) == McExists(e) /\ key \in DOMAIN PackOf(e.pack)[kind]
TextureExists(e, key) == McExists(e) /\ key \in PackOf(e.pack).textures

Min(S) == CHOOSE x \in S : \A y \in S : x <= y

\* the loop of _resolve_block without its return: the last pack wins
BlockstatePack_LastWins(block_name) ==
    LET has == {i \in 1..Len(extracted_packs) : FileExists(extracted_packs[i], "blockstates", block_name)}
    IN  IF has = {} THEN 0 ELSE Max(has)

\* the pack in which the loop of _resolve_block stops, 0 if it runs to the end
BlockstatePack(block_name) ==
    LET has == {i \in 1..Len(extracted_packs) : FileExists(extracted_packs[i], "blockstates", block_name)}
    IN  IF has = {} THEN 0 ELSE Min(has)

\* the model is looked for only in the pack that supplied the blockstate
ModelPack_BlockstatePack(model_path) ==
    LET b == IF cur = NoBlock THEN 0 ELSE BlockstatePack(cur.name)
    IN  IF b # 0 /\ FileExists(extracted_packs[b], "models", model_path) THEN b ELSE 0

\* the pack in which the loop of _resolve_model stops, 0 if it runs to the end
ModelPack(model_path) ==
    LET has == {i \in 1..Len(extracted_packs) : FileExists(extracted_packs[i], "models", model_path)}
    IN  IF has = {} THEN 0 ELSE Min(has)

\* the loop of _copy_texture without its exists() test: the first pack is taken
TexturePack_NoExistsTest(tex_ref) ==
    IF extracted_packs = <<>> THEN 0 ELSE 1

\* the pack in which the loop of _copy_texture stops, 0 if it runs to the end
TexturePack(tex_ref) ==
    LET has == {i \in 1..Len(extracted_packs) : TextureExists(extracted_packs[i], tex_ref)}
    IN  IF has = {} THEN 0 ELSE Min(has)

(* --------------------------- _resolve_block ---------------------------- *)

\* the "model" fields of one variant or one apply value (a dict or a list of dicts)
EntryModels(v) ==
    IF "dict" \in DOMAIN v THEN {v.dict.model}
    ELSE {v.list[i].model : i \in DOMAIN v.list}

\* _extract_model_refs
ExtractModelRefs(blockstate) ==
    (IF "variants" \in DOMAIN blockstate
     THEN UNION {EntryModels(blockstate.variants[k]) : k \in DOMAIN blockstate.variants}
     ELSE {})
    \cup
    (IF "multipart" \in DOMAIN blockstate
     THEN UNION {EntryModels(blockstate.multipart[i].apply) : i \in DOMAIN blockstate.multipart}
     ELSE {})

\* model.split("/")[-1] on one variant or apply value
ShortenEntry(v) ==
    IF "dict" \in DOMAIN v
    THEN [dict |-> [v.dict EXCEPT !.model = SplitLast(@, "/")]]
    ELSE [list |-> [i \in DOMAIN v.list |-> [v.list[i] EXCEPT !.model = SplitLast(@, "/")]]]

ShortenVariants(blockstate) ==
    IF "variants" \in DOMAIN blockstate
    THEN [blockstate EXCEPT !.variants = [k \in DOMAIN @ |-> ShortenEntry(@[k])]]
    ELSE blockstate

\* _shorten_model_refs
ShortenModelRefs(blockstate) ==
    LET b == ShortenVariants(blockstate)
    IN  IF "multipart" \in DOMAIN b
        THEN [b EXCEPT !.multipart = [i \in DOMAIN @ |-> [@[i] EXCEPT !.apply = ShortenEntry(@)]]]
        ELSE b

(* --------------------------- _resolve_model ---------------------------- *)

\* the parent is never looked at
HasParent_Never(model_data) == FALSE

\* "parent" in model_data
HasParent(model_data) == "parent" \in DOMAIN model_data

\* the recursive call is made for the model itself
ParentRef_Self(model_ref, model_data) == model_ref

\* the argument of the recursive call: model_data["parent"]
ParentRef(model_ref, model_data) == model_data.parent

\* json.loads(raw_data.replace("minecraft:", "")): every reference of the document
CleanParent(model_data) ==
    IF "parent" \in DOMAIN model_data
    THEN [model_data EXCEPT !.parent = StripMinecraft(@)]
    ELSE model_data

Cleaned(model_data) ==
    LET m == CleanParent(model_data)
    IN  IF "textures" \in DOMAIN m
        THEN [m EXCEPT !.textures = [i \in DOMAIN @ |-> [@[i] EXCEPT !.ref = StripMinecraft(@)]]]
        ELSE m

\* only the north face is patched
HorizontalFaces_NorthOnly == {"north"}

HorizontalFaces == {"north", "east", "south", "west"}

\* elem["faces"][face]["uv"] = [0, 0, 16, 8] for the horizontal faces present
PatchElement(elem) ==
    IF "faces" \in DOMAIN elem
    THEN [elem EXCEPT !.faces = [f \in DOMAIN @ |->
              IF f \in HorizontalFaces THEN ("uv" :> <<0, 0, 16, 8>>) @@ @[f] ELSE @[f]]]
    ELSE elem

\* the sculk_sensor special case
SculkPatch(short_name, cleaned) ==
    IF short_name = <<"sculk_sensor">> /\ "elements" \in DOMAIN cleaned
    THEN [cleaned EXCEPT !.elements = [i \in DOMAIN @ |-> PatchElement(@[i])]]
    ELSE cleaned

\* the texture references _resolve_model hands to _copy_texture, in document order
ConcreteRefs(cleaned) ==
    IF "textures" \in DOMAIN cleaned
    THEN SelectSeq([i \in DOMAIN cleaned.textures |-> cleaned.textures[i].ref],
                   LAMBDA r : ~StartsWithHash(r))
    ELSE <<>>

CopyCount(c, tex_ref) == IF tex_ref \in DOMAIN c THEN c[tex_ref] ELSE 0

\* _copy_texture without the test of self.copied_textures
CopyTexture_NoMemo(st, tex_ref) ==
    LET i == TexturePack(tex_ref)
    IN  IF i = 0 THEN st
        ELSE [copied |-> st.copied \cup {tex_ref},
              files |-> (tex_ref :> [pack |-> extracted_packs[i].pack, build |-> build_no]) @@ st.files,
              copies |-> (tex_ref :> CopyCount(st.copies, tex_ref) + 1) @@ st.copies]

\* _copy_texture, on st = [copied, files, copies]
CopyTexture(st, tex_ref) ==
    IF tex_ref \in st.copied THEN st
    ELSE LET i == TexturePack(tex_ref)
         IN  IF i = 0 THEN st
             ELSE [copied |-> st.copied \cup {tex_ref},
                   files |-> (tex_ref :> [pack |-> extracted_packs[i].pack, build |-> build_no]) @@ st.files,
                   copies |-> (tex_ref :> CopyCount(st.copies, tex_ref) + 1) @@ st.copies]

\* the loop over cleaned["textures"].values()
RECURSIVE CopyTextures(_, _)
CopyTextures(st, refs) ==
    IF refs = <<>> THEN st
    ELSE CopyTextures(CopyTexture(st, Head(refs)), Tail(refs))

\* d[key] = value on a dict that keeps insertion order
DictOrder(order, key) ==
    IF key \in Range(order) THEN order ELSE Append(order, key)

\* self.result["models"][short_name] = cleaned
StoreModel(res, short_name, cleaned) ==
    [res EXCEPT !.order = DictOrder(@, short_name),
                !.models = (short_name :> cleaned) @@ @]

(* ------------------------------ actions -------------------------------- *)

\* __init__ up to the call of build(), for the first build
Init ==
    /\ resource_packs \in PackLists
    /\ block_names \in SUBSET BlockUniverse
    /\ result = EmptyResult
    /\ copied_textures = {}
    /\ extracted_packs = <<>>
    /\ prev \in {NoBuild, StaleBuild}
    /\ cache = IF prev = NoBuild THEN [json |-> NoFile, textures |-> Empty]
                                 ELSE [json |-> StaleJson, textures |-> StaleTextures]
    /\ tmp = {}
    /\ pc = "build"
    /\ error = "none"
    /\ pack_i = 1
    /\ blocks = <<>>
    /\ cur = NoBlock
    /\ model_refs = {}
    /\ stack = <<>>
    /\ copies = Empty
    /\ build_no = 1

\* an exception leaves the try block of build(): the finally clause runs next
Raise(e) ==
    /\ pc' = "cleanup"
    /\ error' = e
    /\ stack' = <<>>

\* build() without the rmtree: the destination is made if missing and kept otherwise
Build_KeepDestination ==
    /\ pc = "build"
    /\ pack_i' = 1
    /\ pc' = "extract"
    /\ UNCHANGED <<inputs, result, copied_textures, extracted_packs, cache, tmp, error,
                   blocks, cur, model_refs, stack, copies, build_no, prev>>

\* build(), before the try: the destination is removed and made anew
Build ==
    /\ pc = "build"
    /\ cache' = [json |-> NoFile, textures |-> Empty]
    /\ pack_i' = 1
    /\ pc' = "extract"
    /\ UNCHANGED <<inputs, result, copied_textures, extracted_packs, tmp, error,
                   blocks, cur, model_refs, stack, copies, build_no, prev>>

\* one iteration of the loop of _extract_packs
ExtractPack ==
    /\ pc = "extract"
    /\ pack_i <= Len(resource_packs)
    /\ LET pack == PackOf(resource_packs[pack_i])
           tmpdir == [build |-> build_no, n |-> pack_i]
           mc == FindMinecraftPath(pack.layout)
       IN  IF ~IsZip(pack)
           THEN /\ Raise("ValueError")
                /\ UNCHANGED <<tmp, extracted_packs, pack_i>>
           ELSE /\ tmp' = tmp \cup {tmpdir}
                /\ IF pack.corrupt
                   THEN Raise("BadZipFile") /\ UNCHANGED <<extracted_packs, pack_i>>
                   ELSE IF ~mc.found
                   THEN Raise("FileNotFoundError") /\ UNCHANGED <<extracted_packs, pack_i>>
                   ELSE /\ extracted_packs' = Append(extracted_packs,
                               [pack |-> pack.name, at |-> mc.at, tmpdir |-> tmpdir])
                        /\ pack_i' = pack_i + 1
                        /\ UNCHANGED <<pc, error, stack>>
    /\ UNCHANGED <<inputs, result, copied_textures, cache, blocks, cur, model_refs,
                   copies, build_no, prev>>

\* _extract_packs returns and _resolve_blocks sorts the block names
ResolveBlocks ==
    /\ pc = "extract"
    /\ pack_i > Len(resource_packs)
    /\ blocks' = Sorted(block_names)
    /\ pc' = "blocks"
    /\ UNCHANGED <<inputs, result, copied_textures, extracted_packs, cache, tmp, error,
                   pack_i, cur, model_refs, stack, copies, build_no, prev>>

\* _resolve_block up to the loop over the model references
ResolveBlock ==
    /\ pc = "blocks"
    /\ blocks # <<>>
    /\ \E block_name \in {Head(blocks)} :
       \E i \in {BlockstatePack(block_name)} :
           IF i = 0
           THEN /\ blocks' = Tail(blocks)
                /\ UNCHANGED <<pc, error, stack, cur, model_refs>>
           ELSE \E blockstate \in {PackOf(extracted_packs[i].pack).blockstates[block_name]} :
                    IF "malformed" \in DOMAIN blockstate
                    THEN Raise("JSONDecodeError") /\ UNCHANGED <<blocks, cur, model_refs>>
                    ELSE /\ blocks' = Tail(blocks)
                         /\ cur' = [name |-> block_name, blockstate |-> blockstate]
                         /\ model_refs' = ExtractModelRefs(blockstate)
                         /\ pc' = "refs"
                         /\ UNCHANGED <<error, stack>>
    /\ UNCHANGED <<inputs, result, copied_textures, extracted_packs, cache, tmp, pack_i,
                   copies, build_no, prev>>

\* the loop over the set model_refs takes a next element and calls _resolve_model
NextModelRef ==
    /\ pc = "refs"
    /\ \E model_ref \in model_refs :
          /\ model_refs' = model_refs \ {model_ref}
          /\ stack' = <<[ref |-> model_ref, stage |-> "call", pack |-> 0]>>
    /\ pc' = "model"
    /\ UNCHANGED <<inputs, result, copied_textures, extracted_packs, cache, tmp, error,
                   pack_i, blocks, cur, copies, build_no, prev>>

\* return from _resolve_model
Return ==
    /\ stack' = Tail(stack)
    /\ pc' = IF Tail(stack) = <<>> THEN "refs" ELSE "model"
    /\ error' = error

\* _resolve_model after the parent: clean, copy the textures, patch, store
FinishModel(short_name, model_data) ==
    \E cleaned \in {Cleaned(model_data)} :
    \E st \in {CopyTextures([copied |-> copied_textures, files |-> cache.textures,
                            copies |-> copies], ConcreteRefs(cleaned))} :
        /\ copied_textures' = st.copied
        /\ cache' = [cache EXCEPT !.textures = st.files]
        /\ copies' = st.copies
        /\ result' = StoreModel(result, short_name, SculkPatch(short_name, cleaned))
        /\ Return

\* _resolve_model from its entry to the call for the parent, or to its end
ResolveModel ==
    /\ pc = "model"
    /\ Head(stack).stage = "call"
    /\ \E model_ref \in {Head(stack).ref} :
       \E model_path \in {ModelPath(model_ref)} :
       \E short_name \in {ShortName(model_ref)} :
       \E i \in {ModelPack(model_path)} :
           IF short_name \in DOMAIN result.models \/ i = 0
           THEN Return /\ UNCHANGED <<result, copied_textures, cache, copies>>
           ELSE \E model_data \in {PackOf(extracted_packs[i].pack).models[model_path]} :
                    IF "malformed" \in DOMAIN model_data
                    THEN Raise("JSONDecodeError")
                         /\ UNCHANGED <<result, copied_textures, cache, copies>>
                    ELSE IF HasParent(model_data)
                    THEN /\ IF Len(stack) >= MaxDepth
                            THEN Raise("RecursionError")
                            ELSE /\ stack' = <<[ref |-> ParentRef(model_ref, model_data), stage |-> "call", pack |-> 0],
                                               [ref |-> model_ref, stage |-> "finish", pack |-> i]>>
                                              \o Tail(stack)
                                 /\ UNCHANGED <<pc, error>>
                         /\ UNCHANGED <<result, copied_textures, cache, copies>>
                    ELSE FinishModel(short_name, model_data)
    /\ UNCHANGED <<inputs, extracted_packs, tmp, pack_i, blocks, cur, model_refs,
                   build_no, prev>>

\* _resolve_model once the call for the parent has returned
ResolveModelAfterParent ==
    /\ pc = "model"
    /\ Head(stack).stage = "finish"
    /\ LET model_ref == Head(stack).ref
           i == Head(stack).pack
       IN  FinishModel(ShortName(model_ref),
                       PackOf(extracted_packs[i].pack).models[ModelPath(model_ref)])
    /\ UNCHANGED <<inputs, extracted_packs, tmp, pack_i, blocks, cur, model_refs,
                   build_no, prev>>

\* _resolve_block after the loop: shorten the references and store the entry
StoreBlock ==
    /\ pc = "refs"
    /\ model_refs = {}
    /\ result' = [result EXCEPT !.blocks = (cur.name :> ShortenModelRefs(cur.blockstate)) @@ @]
    /\ cur' = NoBlock
    /\ pc' = "blocks"
    /\ UNCHANGED <<inputs, copied_textures, extracted_packs, cache, tmp, error, pack_i,
                   blocks, model_refs, stack, copies, build_no, prev>>

\* json.dump(self.result) into textures.json
WriteJson ==
    /\ pc = "blocks"
    /\ blocks = <<>>
    /\ cache' = [cache EXCEPT !.json = [exists |-> TRUE, build |-> build_no, content |-> result]]
    /\ pc' = "cleanup"
    /\ UNCHANGED <<inputs, result, copied_textures, extracted_packs, tmp, error, pack_i,
                   blocks, cur, model_refs, stack, copies, build_no, prev>>

\* _cleanup in the finally clause, then build() returns or re-raises
Cleanup ==
    /\ pc = "cleanup"
    /\ tmp' = tmp \ {extracted_packs[i].tmpdir : i \in 1..Len(extracted_packs)}
    /\ pc' = "done"
    /\ pack_i' = 1
    /\ blocks' = <<>>
    /\ cur' = NoBlock
    /\ model_refs' = {}
    /\ stack' = <<>>
    /\ UNCHANGED <<inputs, result, copied_textures, extracted_packs, cache, error,
                   copies, build_no, prev>>

\* the outcome of the build that has ended
Outcome ==
    [build |-> build_no, error |-> error, result |-> result, json |-> cache.json,
     files |-> DOMAIN cache.textures]

\* the memoization kept at module level: a new builder starts with what the
\* previous build resolved and copied
Construct_SharedMemo ==
    /\ pc = "done"
    /\ build_no < MaxBuilds
    /\ prev' = Outcome
    /\ build_no' = build_no + 1
    /\ extracted_packs' = <<>>
    /\ copies' = Empty
    /\ error' = "none"
    /\ pc' = "build"
    /\ UNCHANGED <<inputs, result, copied_textures, cache, tmp, locals>>

\* __init__ of a new builder for the same arguments, up to its call of build()
Construct ==
    /\ pc = "done"
    /\ build_no < MaxBuilds
    /\ prev' = Outcome
    /\ build_no' = build_no + 1
    /\ result' = EmptyResult
    /\ copied_textures' = {}
    /\ extracted_packs' = <<>>
    /\ copies' = Empty
    /\ error' = "none"
    /\ pc' = "build"
    /\ UNCHANGED <<inputs, cache, tmp, locals>>

Next ==
    \/ Build
    \/ ExtractPack
    \/ ResolveBlocks
    \/ ResolveBlock
    \/ NextModelRef
    \/ ResolveModel
    \/ ResolveModelAfterParent
    \/ StoreBlock
    \/ WriteJson
    \/ Cleanup
    \/ Construct

Spec == Init /\ [][Next]_vars

\* the program is one thread that runs on until build() has returned
FairSpec == Spec /\ WF_vars(Next)

TypeOK ==
    /\ pc \in {"build", "extract", "blocks", "refs", "model", "cleanup", "done"}
    /\ error \in {"none", "ValueError", "BadZipFile", "FileNotFoundError",
                  "JSONDecodeError", "RecursionError"}
    /\ build_no \in 1..MaxBuilds
    /\ Len(stack) <= MaxDepth

(* ------------------------------- claims -------------------------------- *)

\* the blockstate document of block_name in the extracted pack i
BlockstateIn(i, block_name) == PackOf(extracted_packs[i].pack).blockstates[block_name]

\* C1: every stored block entry is the blockstate of the lowest-index pack
\* that has blockstates/<name>.json, with its model fields shortened and
\* nothing of a later pack in it.
C1_PriorityOverride ==
    \A b \in DOMAIN result.blocks :
        \E i \in 1..Len(extracted_packs) :
            /\ FileExists(extracted_packs[i], "blockstates", b)
            /\ \A j \in 1..(i - 1) : ~FileExists(extracted_packs[j], "blockstates", b)
            /\ result.blocks[b] = ShortenModelRefs(BlockstateIn(i, b))

\* a block defined differently by two packs has been stored
C1_Witness ==
    \E b \in DOMAIN result.blocks :
        /\ Len(extracted_packs) = 2
        /\ FileExists(extracted_packs[1], "blockstates", b)
        /\ FileExists(extracted_packs[2], "blockstates", b)
        /\ BlockstateIn(1, b) # BlockstateIn(2, b)

\* C2: within one build, a value stored under a short key of the models
\* mapping is never replaced by a later _resolve_model.
C2_ShortKeyAssignedOnce ==
    [][build_no' = build_no =>
          \A k \in DOMAIN result.models :
              k \in DOMAIN result'.models /\ result'.models[k] = result.models[k]]_vars

\* C3: when build() has returned, no directory made by mkdtemp is left.
C3_TempDirsRemoved == pc = "done" => tmp = {}

\* C4: two builds of the same block names and pack list that both succeed
\* leave the same models (keys, values, key order), the same block entries
\* and the same copied textures.
C4_Deterministic ==
    (pc = "done" /\ prev.build # 0 /\ error = "none" /\ prev.error = "none")
        => /\ result = prev.result
           /\ cache.json.content = prev.json.content
           /\ DOMAIN cache.textures = prev.files

\* some extracted pack has the model file of the reference
ModelResolvable(model_ref) ==
    \E i \in 1..Len(extracted_packs) :
        FileExists(extracted_packs[i], "models", ModelPath(model_ref))

\* C5: whenever a stored model declares a parent whose model file exists in
\* some pack, the parent's short key is a key of the models mapping too.
C5_ParentComplete ==
    \A k \in DOMAIN result.models :
        LET m == result.models[k]
        IN  ("parent" \in DOMAIN m /\ ModelResolvable(m.parent))
                => ShortName(m.parent) \in DOMAIN result.models

\* a model is stored whose parent, under another short key, is resolvable
C5_Witness ==
    \E k \in DOMAIN result.models :
        LET m == result.models[k]
        IN  /\ "parent" \in DOMAIN m
            /\ ModelResolvable(m.parent)
            /\ ShortName(m.parent) # k

BlockAbsent(block_name) ==
    \A i \in 1..Len(extracted_packs) : ~FileExists(extracted_packs[i], "blockstates", block_name)

TextureAbsent(tex_ref) ==
    \A i \in 1..Len(extracted_packs) : ~TextureExists(extracted_packs[i], tex_ref)

\* the concrete texture references of the stored models
StoredTextureRefs ==
    UNION {Range(ConcreteRefs(result.models[k])) : k \in DOMAIN result.models}

\* every stored model is the cleaned (and patched) document of a model file
\* of some pack whose path ends in the key
StoredFromFile(k) ==
    \E i \in 1..Len(extracted_packs) :
        \E path \in DOMAIN PackOf(extracted_packs[i].pack).models :
            /\ McExists(extracted_packs[i])
            /\ SplitLast(path, "/") = k
            /\ LET doc == PackOf(extracted_packs[i].pack).models[path]
               IN  /\ "malformed" \notin DOMAIN doc
                   /\ result.models[k] = SculkPatch(k, Cleaned(doc))

\* nothing is in the result or in textures/ for what no pack has, and a
\* build without error has written the result
C6_State ==
    /\ \A b \in DOMAIN result.blocks : ~BlockAbsent(b)
    /\ \A k \in DOMAIN result.models : StoredFromFile(k)
    /\ \A t \in DOMAIN cache.textures :
           cache.textures[t].build = build_no => ~TextureAbsent(t)
    /\ (pc = "done" /\ error = "none") =>
           cache.json = [exists |-> TRUE, build |-> build_no, content |-> result]

\* _resolve_block on a block no pack has goes on to the next block, nothing else changed
C6_BlockStep ==
    (pc = "blocks" /\ blocks # <<>> /\ BlockAbsent(Head(blocks)))
        => /\ pc' = "blocks" /\ blocks' = Tail(blocks)
           /\ UNCHANGED <<result, copied_textures, cache, error, tmp, copies>>

\* _resolve_model on a reference no pack has returns, nothing else changed
C6_ModelStep ==
    (pc = "model" /\ Head(stack).stage = "call" /\ ~ModelResolvable(Head(stack).ref))
        => /\ stack' = Tail(stack)
           /\ UNCHANGED <<result, copied_textures, cache, error, tmp, copies>>

\* a model whose texture no pack has is stored without a failure and without a copy
C6_TextureStep ==
    (build_no' = build_no /\ result'.models # result.models)
        => /\ error' = "none"
           /\ \A t \in StoredTextureRefs' :
                  TextureAbsent(t) => t \notin DOMAIN cache'.textures /\ t \notin copied_textures'

\* C6: a block, model or texture that no pack has never makes the build
\* fail: it is skipped with the result otherwise untouched, it has no key and
\* no file in the output, and the build without other failure writes textures.json.
C6_AbsenceTolerated ==
    /\ []C6_State
    /\ [][C6_BlockStep /\ C6_ModelStep /\ C6_TextureStep]_vars

\* a build that met an absent block, an absent parent model and an absent
\* texture has ended without error
C6_Witness ==
    /\ pc = "done" /\ error = "none"
    /\ cache.json.exists
    /\ \E b \in block_names : BlockAbsent(b)
    /\ \E k \in DOMAIN result.models :
           "parent" \in DOMAIN result.models[k] /\ ~ModelResolvable(result.models[k].parent)
    /\ \E t \in StoredTextureRefs : TextureAbsent(t)
    /\ DOMAIN result.blocks # {}

\* assets/minecraft exists at the root of the archive or in its top-level child
HasAssetRoot(layout) ==
    \/ layout.assets /\ layout.minecraft
    \/ layout.childAssets /\ layout.childMinecraft

\* C7: no archive without assets/minecraft (at the root or in a top-level
\* child) is accepted as an extracted pack; the build that meets one ends
\* with the asset-root-not-found error.
C7_AssetRootRequired ==
    /\ \A i \in 1..Len(extracted_packs) : HasAssetRoot(PackOf(extracted_packs[i].pack).layout)
    /\ (pc = "done" /\ error = "none") =>
           \A i \in 1..Len(resource_packs) : HasAssetRoot(PackOf(resource_packs[i]).layout)

\* C8: a build with a pack path that is not a .zip ends with an error, and
\* a build that has failed has no textures.json.
C8_NoPartialSuccess ==
    /\ error # "none" => cache.json = NoFile
    /\ (pc = "done" /\ \E i \in 1..Len(resource_packs) : PackOf(resource_packs[i]).suffix # ".zip")
           => error # "none" /\ cache.json = NoFile

\* a build ended in error at a non-zip path that follows an extracted pack
C8_Witness ==
    /\ pc = "done"
    /\ error = "ValueError"
    /\ Len(extracted_packs) = 1
    /\ Len(resource_packs) = 2
    /\ PackOf(resource_packs[2]).suffix # ".zip"
    /\ cache.json = NoFile

\* C9: no texture reference is copied twice in a build, and a reference of a
\* stored model that some pack has is copied exactly once.
C9_CopiedOnce ==
    /\ \A t \in DOMAIN copies : copies[t] <= 1
    /\ \A t \in StoredTextureRefs : ~TextureAbsent(t) => CopyCount(copies, t) = 1

\* a texture that two stored models reference has been copied
C9_Witness ==
    \E k1, k2 \in DOMAIN result.models :
        /\ k1 # k2
        /\ \E t \in Range(ConcreteRefs(result.models[k1])) \cap Range(ConcreteRefs(result.models[k2])) :
               CopyCount(copies, t) = 1

\* C10: at the end of a successful build the copied textures are exactly the
\* concrete texture references of the stored models that some pack has.
C10_ExactTextures ==
    (pc = "done" /\ error = "none")
        => DOMAIN cache.textures = {t \in StoredTextureRefs : ~TextureAbsent(t)}

\* the references of the blockstate _resolve_block reads for block_name
SourceRefs(block_name) ==
    ExtractModelRefs(BlockstateIn(BlockstatePack(block_name), block_name))

\* the "model" fields of a stored block entry
StoredModelFields(block_name) ==
    LET b == result.blocks[block_name]
    IN  (IF "variants" \in DOMAIN b
         THEN UNION {EntryModels(b.variants[k]) : k \in DOMAIN b.variants} ELSE {})
        \cup
        (IF "multipart" \in DOMAIN b
         THEN UNION {EntryModels(b.multipart[i].apply) : i \in DOMAIN b.multipart} ELSE {})

\* C11: the model fields of every stored block entry are the short keys of
\* the references of its blockstate (namespace stripped, last path segment),
\* and the short key of a resolvable reference is a key of the models mapping
\* once the build has succeeded.
C11_FieldsAreShortKeys ==
    \A b \in DOMAIN result.blocks :
        /\ StoredModelFields(b) = {ShortName(r) : r \in SourceRefs(b)}
        /\ (pc = "done" /\ error = "none") =>
               \A r \in SourceRefs(b) :
                   ModelResolvable(r) => \E f \in StoredModelFields(b) :
                                             f = ShortName(r) /\ f \in DOMAIN result.models

\* no requested block has a blockstate with two references
SingleRefs ==
    \A b \in block_names :
        BlockstatePack(b) # 0 =>
            LET doc == BlockstateIn(BlockstatePack(b), b)
            IN  "malformed" \in DOMAIN doc \/ Cardinality(ExtractModelRefs(doc)) <= 1

\* C12: a build starts with empty memoization whatever the build before it
\* left; what it marks as copied it has copied itself into the destination;
\* and where set iteration leaves no choice a second build gives the result
\* and the copied textures of the first.
C12_MemoPerBuild ==
    /\ pc = "build" => result = EmptyResult /\ copied_textures = {} /\ extracted_packs = <<>>
    /\ \A t \in copied_textures :
           t \in DOMAIN cache.textures /\ cache.textures[t].build = build_no
    /\ (pc = "done" /\ prev.build # 0 /\ SingleRefs)
           => /\ error = prev.error
              /\ result = prev.result
              /\ DOMAIN cache.textures = prev.files
              /\ cache.json.exists = prev.json.exists

\* a second build has ended after a first one that stored models and copied textures
C12_Witness ==
    /\ pc = "done" /\ build_no = 2 /\ error = "none"
    /\ SingleRefs
    /\ prev.files # {}
    /\ DOMAIN prev.result.models # {}
    /\ copied_textures # {}

\* the faces of element i of a model document, none if it has no "faces"
FacesOf(doc, i) ==
    IF "faces" \in DOMAIN doc.elements[i] THEN doc.elements[i].faces ELSE Empty

\* the elements of a stored model against those of its source document:
\* under the key sculk_sensor the four side faces carry (0,0,16,8), every
\* other face, and every face under another key, is the source's
ElementsAsClaimed(k, stored, src) ==
    /\ ("elements" \in DOMAIN stored) = ("elements" \in DOMAIN src)
    /\ "elements" \in DOMAIN src =>
        /\ Len(stored.elements) = Len(src.elements)
        /\ \A i \in 1..Len(src.elements) :
            /\ DOMAIN FacesOf(stored, i) = DOMAIN FacesOf(src, i)
            /\ \A f \in DOMAIN FacesOf(src, i) :
                  IF k = <<"sculk_sensor">> /\ f \in {"north", "east", "south", "west"}
                  THEN FacesOf(stored, i)[f].uv = <<0, 0, 16, 8>>
                  ELSE FacesOf(stored, i)[f] = FacesOf(src, i)[f]

\* the model files whose path ends in the key k and whose cleaned document,
\* elements apart, is the one stored under k
SourcesOf(k) ==
    {src \in UNION { {PackOf(extracted_packs[i].pack).models[path] :
                          path \in {q \in DOMAIN PackOf(extracted_packs[i].pack).models :
                                        SplitLast(q, "/") = k}} :
                     i \in 1..Len(extracted_packs) } :
        /\ "malformed" \notin DOMAIN src
        /\ DOMAIN Cleaned(src) = DOMAIN result.models[k]
        /\ \A field \in DOMAIN Cleaned(src) \ {"elements"} :
               Cleaned(src)[field] = result.models[k][field]}

\* C13: a model stored under sculk_sensor has UV (0,0,16,8) on every north,
\* east, south and west face present and the source UV on its other faces;
\* a model stored under any other key has the faces of its source.
C13_SculkPatch ==
    \A k \in DOMAIN result.models :
        \E src \in SourcesOf(k) : ElementsAsClaimed(k, result.models[k], src)

\* sculk_sensor is stored from a source with a side face of another UV and
\* an up or down face, and a model of another key with a side face is stored
C13_Witness ==
    /\ <<"sculk_sensor">> \in DOMAIN result.models
    /\ \E src \in SourcesOf(<<"sculk_sensor">>) :
           /\ ElementsAsClaimed(<<"sculk_sensor">>, result.models[<<"sculk_sensor">>], src)
           /\ \E f \in DOMAIN FacesOf(src, 1) \cap {"east", "south", "west"} :
                  FacesOf(src, 1)[f].uv # <<0, 0, 16, 8>>
           /\ DOMAIN FacesOf(src, 1) \cap {"up", "down"} # {}

\* C14: from the moment build() has emptied the destination, and so when it
\* has returned with or without an error, textures.json and every file of
\* textures/ are of the running build: nothing older is left.
C14_DestinationReplaced ==
    pc # "build" =>
        /\ cache.json.exists => cache.json.build = build_no
        /\ \A t \in DOMAIN cache.textures : cache.textures[t].build = build_no

\* a build has failed on a destination that held a textures.json and textures
C14_Witness ==
    /\ pc = "done"
    /\ error # "none"
    /\ prev.json.exists
    /\ prev.files # {}
    /\ cache = [json |-> NoFile, textures |-> Empty]

\* C15: every stored model is the document of the first pack, in list order,
\* that has the file of its path, and every copied texture is the file of
\* the first pack that has it, whichever pack the blockstate came from.
C15_FirstPackPerAsset ==
    /\ \A k \in DOMAIN result.models :
           \E i \in 1..Len(extracted_packs) :
               \E path \in DOMAIN PackOf(extracted_packs[i].pack).models :
                   /\ SplitLast(path, "/") = k
                   /\ FileExists(extracted_packs[i], "models", path)
                   /\ \A j \in 1..(i - 1) : ~FileExists(extracted_packs[j], "models", path)
                   /\ result.models[k] =
                          SculkPatch(k, Cleaned(PackOf(extracted_packs[i].pack).models[path]))
    /\ \A t \in DOMAIN cache.textures :
           cache.textures[t].build = build_no =>
               \E i \in 1..Len(extracted_packs) :
                   /\ TextureExists(extracted_packs[i], t)
                   /\ \A j \in 1..(i - 1) : ~TextureExists(extracted_packs[j], t)
                   /\ cache.textures[t].pack = extracted_packs[i].pack

\* a block whose blockstate is of the second pack has its model and its
\* texture from the first pack, the second pack having both files too
C15_Witness ==
    /\ Len(extracted_packs) = 2
    /\ extracted_packs[1].pack # extracted_packs[2].pack
    /\ \E b \in DOMAIN result.blocks :
           /\ BlockstatePack(b) = 2
           /\ \E r \in SourceRefs(b) :
                  /\ FileExists(extracted_packs[1], "models", ModelPath(r))
                  /\ FileExists(extracted_packs[2], "models", ModelPath(r))
                  /\ ShortName(r) \in DOMAIN result.models
                  /\ result.models[ShortName(r)] =
                         Cleaned(PackOf(extracted_packs[1].pack).models[ModelPath(r)])
    /\ \E t \in DOMAIN cache.textures :
           /\ TextureExists(extracted_packs[1], t)
           /\ TextureExists(extracted_packs[2], t)
           /\ cache.textures[t] = [pack |-> extracted_packs[1].pack, build |-> build_no]

\* the model paths of the packs named in S
PathsOf(S) == UNION {DOMAIN PackOf(n).models : n \in S}

\* <<p, q>>: some pack named in S has a model file at path p that names q as its parent
EdgesOf(S) ==
    UNION {{<<p, ModelPath(PackOf(n).models[p].parent)>> :
                p \in {q \in DOMAIN PackOf(n).models : "parent" \in DOMAIN PackOf(n).models[q]}} :
           n \in S}

\* the paths reached from the set front in at most n parent steps
RECURSIVE Ancestors(_, _, _)
Ancestors(edges, front, n) ==
    IF n = 0 THEN front
    ELSE Ancestors(edges, front \cup {e[2] : e \in {d \in edges : d[1] \in front}}, n - 1)

\* for every set of packs, the model paths that lie on a cycle of parents
CycleTable ==
    {<<S, {p \in PathsOf(S) :
            p \in Ancestors(EdgesOf(S), {e[2] : e \in {d \in EdgesOf(S) : d[1] = p}},
                            Cardinality(PathsOf(S)))}>> : S \in SUBSET PackNames}

CyclePaths == [S \in SUBSET PackNames |-> (CHOOSE t \in CycleTable : t[1] = S)[2]]

ListedPaths == PathsOf(Range(resource_packs))

OnCycle(p) == p \in CyclePaths[Range(resource_packs)]

\* the parent relation among the model files of the listed packs has no cycle
Acyclic == CyclePaths[Range(resource_packs)] = {}

\* _cleanup has removed the directory of every extracted pack
CleanedUp == \A i \in 1..Len(extracted_packs) : extracted_packs[i].tmpdir \notin tmp

\* C16: with an acyclic parent relation every build ends: build() returns,
\* never by RecursionError, with textures.json written unless a failure is
\* propagated, and with the extracted packs' directories removed.
C16_AcyclicTerminates ==
    /\ (Acyclic /\ pc # "done") ~> (pc = "done")
    /\ [](Acyclic /\ pc = "done" =>
            /\ error # "RecursionError"
            /\ error = "none" => cache.json = [exists |-> TRUE, build |-> build_no, content |-> result]
            /\ CleanedUp)

\* a build over acyclic packs that went through a parent chain has ended
C16_Witness ==
    /\ Acyclic
    /\ pc = "done" /\ error = "none"
    /\ cache.json.exists
    /\ \E k \in DOMAIN result.models :
           /\ "parent" \in DOMAIN result.models[k]
           /\ ShortName(result.models[k].parent) \in DOMAIN result.models \ {k}

\* _resolve_model is active twice for the same reference
Reentered ==
    \E i, j \in DOMAIN stack : i < j /\ stack[i].ref = stack[j].ref

\* the document of a model file on a cycle is stored
CycleModelStored ==
    \E cyc \in {CyclePaths[Range(resource_packs)]} :
        \E path \in cyc :
            \E i \in 1..Len(extracted_packs) :
                /\ path \in DOMAIN PackOf(extracted_packs[i].pack).models
                /\ SplitLast(path, "/") \in DOMAIN result.models
                /\ result.models[SplitLast(path, "/")] =
                       SculkPatch(SplitLast(path, "/"),
                                  Cleaned(PackOf(extracted_packs[i].pack).models[path]))

\* no model file off the cycles shares its short name with one on a cycle
NoCycleKeyShared ==
    \E cyc \in {CyclePaths[Range(resource_packs)]} :
        \A p \in cyc :
            \A q \in ListedPaths \ cyc : SplitLast(p, "/") # SplitLast(q, "/")

\* C17 as claimed: once _resolve_model is re-entered for the same reference
\* the recursion is never left.
C17_NeverReturns == [][Reentered => Reentered']_vars

\* C17 as amended: the cycle is not detected and _resolve_model is
\* re-entered with none of the active models stored; the recursion is left
\* only by RecursionError, which ends the build without textures.json; and
\* no model of a cycle is ever stored.
C17_CycleEndsInRecursionError ==
    /\ [](Reentered => \A i \in DOMAIN stack : ShortName(stack[i].ref) \notin DOMAIN result.models)
    /\ [][Reentered => (Reentered' \/ (error' = "RecursionError" /\ pc' = "cleanup"))]_vars
    /\ [](error = "RecursionError" => cache.json = NoFile)
    /\ [](NoCycleKeyShared => ~CycleModelStored)

\* a build whose recursion re-entered a reference has ended by RecursionError
C17_Witness ==
    /\ pc = "done"
    /\ error = "RecursionError"
    /\ \E b \in block_names :
           /\ BlockstatePack(b) # 0
           /\ "malformed" \notin DOMAIN BlockstateIn(BlockstatePack(b), b)
           /\ \E r \in SourceRefs(b) : OnCycle(ModelPath(r))
    /\ ~CycleModelStored

\* C18: no texture reference that _resolve_model hands to _copy_texture
\* carries a namespace prefix.
C18_TextureRefsStripped ==
    \A t \in StoredTextureRefs : ":" \notin Range(t)

====
